---- MODULE Spec2Model ----
(***************************************************************************)
(* Model of the `do` library: the three wrappers to, toSync and toPromise  *)
(* that turn a raised / rejected signal into a Go-style [error, data]      *)
(* tuple.  JavaScript values, the object heap (identity), promises and     *)
(* the single await of the async wrappers are modelled explicitly.         *)
(***************************************************************************)
EXTENDS Integers, Sequences, FiniteSets, TLC

(***************************************************************************)
(* Bounds                                                                  *)
(***************************************************************************)
\* number of wrapper calls a behaviour makes (they may be in flight together)
MaxCalls == 2
\* number of deferred computations (promises) the environment owns
MaxPromises == 2

(***************************************************************************)
(* JavaScript values.  Primitives are compared by value, objects by their  *)
(* heap address (reference identity).                                      *)
(***************************************************************************)
Undefined == [t |-> "undefined", n |-> 0, s |-> ""]
Null      == [t |-> "null", n |-> 0, s |-> ""]
Str(x)    == [t |-> "string", n |-> 0, s |-> x]
Num(k)    == [t |-> "number", n |-> k, s |-> ""]
Ref(a)    == [t |-> "object", n |-> a, s |-> ""]

\* heap cells
FreeCell        == [cls |-> "free", message |-> "", state |-> "", value |-> Undefined]
ErrorObj(c, m)  == [cls |-> c, message |-> m, state |-> "", value |-> Undefined]
PlainObj        == [cls |-> "Object", message |-> "", state |-> "", value |-> Undefined]
NullProtoObj    == [cls |-> "NullProto", message |-> "", state |-> "", value |-> Undefined]
PromiseObj(s, v) == [cls |-> "Promise", message |-> "", state |-> s, value |-> v]

\* objects the environment owns before any call is made
AddrError     == 1   \* new Error('Async operation failed')
AddrData      == 2   \* a plain data object an operation produces
AddrFallback  == 3   \* a plain data object a caller passes as fallback
AddrNullProto == 4   \* Object.create(null): String() of it raises TypeError
NumStatic     == 4

CallIds     == 1..MaxCalls
PromiseAddr == (NumStatic + 1)..(NumStatic + MaxPromises)
\* the cell in which call c constructs its Error, when it constructs one
AllocAddr(c) == NumStatic + MaxPromises + c
HeapAddr    == 1..(NumStatic + MaxPromises + MaxCalls)

\* signals an operation may raise / a promise may reject with
Signals == { Ref(AddrError), Str("string error"), Num(404), Null, Undefined,
             Ref(AddrData), Ref(AddrNullProto) }
\* values an operation may produce
Values == { Ref(AddrData) }
\* fallbacks a caller may pass (Undefined: none supplied)
Fallbacks == { Undefined, Ref(AddrFallback) }

VARIABLES heap, calls, sig
vars == <<heap, calls, sig>>

(***************************************************************************)
(* String(x) and instanceof Error, as the catch blocks use them            *)
(***************************************************************************)
Digits == <<"0", "1", "2", "3", "4", "5", "6", "7", "8", "9">>

RECURSIVE NatToString(_)
NatToString(k) ==
  IF k < 10 THEN Digits[k + 1]
  ELSE NatToString(k \div 10) \o Digits[(k % 10) + 1]

NumberToString(k) == IF k < 0 THEN "-" \o NatToString(0 - k) ELSE NatToString(k)

\* Error.prototype.toString: the name alone when the message is empty, the
\* message alone when the name is empty, otherwise name ": " message
ErrorToString(name, msg) ==
  IF msg = "" THEN name
  ELSE IF name = "" THEN msg
  ELSE name \o ": " \o msg

\* a String() that renders null and undefined as the empty text
JSString_nullish(v, h) ==
  CASE v.t \in {"undefined", "null"} -> [threw |-> FALSE, str |-> ""]
    [] v.t = "string"    -> [threw |-> FALSE, str |-> v.s]
    [] v.t = "number"    -> [threw |-> FALSE, str |-> NumberToString(v.n)]
    [] v.t = "object"    ->
         CASE h[v.n].cls = "Object"    -> [threw |-> FALSE, str |-> "[object Object]"]
           [] h[v.n].cls = "Promise"   -> [threw |-> FALSE, str |-> "[object Promise]"]
           [] h[v.n].cls = "Error"     -> [threw |-> FALSE, str |-> ErrorToString("Error", h[v.n].message)]
           [] h[v.n].cls = "TypeError" -> [threw |-> FALSE, str |-> ErrorToString("TypeError", h[v.n].message)]
           [] OTHER                    -> [threw |-> TRUE, str |-> ""]

\* String(v): [threw |-> TRUE] when the conversion raises a TypeError
JSString(v, h) ==
  CASE v.t = "undefined" -> [threw |-> FALSE, str |-> "undefined"]
    [] v.t = "null"      -> [threw |-> FALSE, str |-> "null"]
    [] v.t = "string"    -> [threw |-> FALSE, str |-> v.s]
    [] v.t = "number"    -> [threw |-> FALSE, str |-> NumberToString(v.n)]
    [] v.t = "object"    ->
         CASE h[v.n].cls = "Object"    -> [threw |-> FALSE, str |-> "[object Object]"]
           [] h[v.n].cls = "Promise"   -> [threw |-> FALSE, str |-> "[object Promise]"]
           [] h[v.n].cls = "Error"     -> [threw |-> FALSE, str |-> ErrorToString("Error", h[v.n].message)]
           [] h[v.n].cls = "TypeError" -> [threw |-> FALSE, str |-> ErrorToString("TypeError", h[v.n].message)]
           [] OTHER                    -> [threw |-> TRUE, str |-> ""]

\* error instanceof Error
InstanceofError(v, h) == v.t = "object" /\ h[v.n].cls \in {"Error", "TypeError"}

\* what a wrapper call has produced so far
NoOutcome      == [outcome |-> "none", err |-> Undefined, data |-> Undefined]
Tuple(e, d)    == [outcome |-> "tuple", err |-> e, data |-> d]
Raised(reason) == [outcome |-> "raised", err |-> reason, data |-> Undefined]

\* an errorInstance without the instanceof test: new Error(String(error)) always
errorInstance_alwaysNew(error, h, a) ==
  LET r == JSString(error, h) IN
  IF r.threw
  THEN [threw |-> TRUE, val |-> Ref(a),
        heap |-> [h EXCEPT ![a] =
                    ErrorObj("TypeError", "Cannot convert object to primitive value")]]
  ELSE [threw |-> FALSE, val |-> Ref(a),
        heap |-> [h EXCEPT ![a] = ErrorObj("Error", r.str)]]

\* const errorInstance = error instanceof Error ? error : new Error(String(error));
\* a is the address a newly constructed object gets
errorInstance(error, h, a) ==
  IF InstanceofError(error, h)
  THEN [threw |-> FALSE, val |-> error, heap |-> h]
  ELSE LET r == JSString(error, h) IN
       IF r.threw
       THEN [threw |-> TRUE, val |-> Ref(a),
             heap |-> [h EXCEPT ![a] =
                         ErrorObj("TypeError", "Cannot convert object to primitive value")]]
       ELSE [threw |-> FALSE, val |-> Ref(a),
             heap |-> [h EXCEPT ![a] = ErrorObj("Error", r.str)]]

(***************************************************************************)
(* The try and catch branches of the three wrappers                        *)
(***************************************************************************)
\* a try branch that loses the awaited result
toTry_dropsResult(result) == Tuple(Null, Undefined)

\* to: return [null, result];
toTry(result) == Tuple(Null, result)

\* a catch branch that rebuilds the failure from its message: new Error(error.message)
toCatch_copies(error, defaultValue, h, a) ==
  IF InstanceofError(error, h)
  THEN [res |-> Tuple(Ref(a), defaultValue),
        heap |-> [h EXCEPT ![a] = ErrorObj("Error", h[error.n].message)]]
  ELSE LET e == errorInstance(error, h, a) IN
       [res |-> IF e.threw THEN Raised(e.val) ELSE Tuple(e.val, defaultValue),
        heap |-> e.heap]

\* to: catch (error) { ...; return [errorInstance, defaultValue]; }
toCatch(error, defaultValue, h, a) ==
  LET e == errorInstance(error, h, a) IN
  [res |-> IF e.threw THEN Raised(e.val) ELSE Tuple(e.val, defaultValue),
   heap |-> e.heap]

\* a try branch that looks into a returned promise and reports its rejection
toSyncTry_unwraps(result) ==
  IF result.t = "object" /\ heap[result.n].cls = "Promise"
                        /\ heap[result.n].state = "rejected"
  THEN Tuple(heap[result.n].value, Undefined)
  ELSE Tuple(Null, result)

\* toSync: return [null, result];
toSyncTry(result) == Tuple(Null, result)

\* a catch branch that swallows the failure and reports the fallback as a success
toSyncCatch_swallows(error, defaultValue, h, a) ==
  [res |-> Tuple(Null, defaultValue), heap |-> h]

\* toSync: catch (error) { ...; return [errorInstance, defaultValue]; }
toSyncCatch(error, defaultValue, h, a) ==
  LET e == errorInstance(error, h, a) IN
  [res |-> IF e.threw THEN Raised(e.val) ELSE Tuple(e.val, defaultValue),
   heap |-> e.heap]

\* toPromise: return [null, result];
toPromiseTry(result) == Tuple(Null, result)

\* a catch branch that forgets the caller's fallback
toPromiseCatch_noFallback(error, defaultValue, h, a) ==
  LET e == errorInstance(error, h, a) IN
  [res |-> IF e.threw THEN Raised(e.val) ELSE Tuple(e.val, Undefined),
   heap |-> e.heap]

\* toPromise: catch (error) { ...; return [errorInstance, defaultValue]; }
toPromiseCatch(error, defaultValue, h, a) ==
  LET e == errorInstance(error, h, a) IN
  [res |-> IF e.threw THEN Raised(e.val) ELSE Tuple(e.val, defaultValue),
   heap |-> e.heap]

(***************************************************************************)
(* State                                                                   *)
(***************************************************************************)
IdleCall ==
  [kind |-> "idle", pc |-> "idle", mode |-> "none", arg |-> Undefined,
   dflt |-> Undefined, res |-> NoOutcome,
   invoked |-> 0, suspended |-> 0, resumed |-> 0]

InitHeap ==
  [a \in HeapAddr |->
     CASE a = AddrError     -> ErrorObj("Error", "Async operation failed")
       [] a = AddrData      -> PlainObj
       [] a = AddrFallback  -> PlainObj
       [] a = AddrNullProto -> NullProtoObj
       [] a \in PromiseAddr -> PromiseObj("pending", Undefined)
       [] OTHER             -> FreeCell]

\* sig: the signal the failing operations of this behaviour raise
Init ==
  /\ heap = InitHeap
  /\ calls = [c \in CallIds |-> IdleCall]
  /\ sig \in Signals

\* calls are made in the order of their ids
CanStart(c) ==
  /\ calls[c].kind = "idle"
  /\ IF c = 1 THEN TRUE ELSE calls[c - 1].kind # "idle"

\* the Error objects earlier calls constructed: a caller can raise them again
HeapErrors ==
  { Ref(a) : a \in { b \in HeapAddr : b > NumStatic + MaxPromises
                                        /\ InstanceofError(Ref(b), heap) } }

\* the promises are numbered in the order in which they first settle or are
\* handed to a call: p exists once its predecessor has settled or has been
\* handed to a call
Touched(p) ==
  \/ heap[p].state # "pending"
  \/ \E c \in CallIds : calls[c].arg = Ref(p)

Constructed(p) ==
  IF p = NumStatic + 1 THEN TRUE ELSE Touched(p - 1)

Promises == { Ref(p) : p \in { q \in PromiseAddr : Constructed(q) } }

\* the operations a caller may pass to `to` (AsyncFunction<T>): raise while
\* being invoked, or return a promise
AsyncFns ==
  [mode : {"throw"}, arg : {sig} \cup HeapErrors]
    \cup [mode : {"promise"}, arg : Promises]

\* the operations a caller may pass to toSync: raise, or return a value
\* (a promise is a value like any other)
SyncFns ==
  [mode : {"throw"}, arg : {sig} \cup HeapErrors]
    \cup [mode : {"return"}, arg : Values \cup Promises]

IsPromise(v) == v.t = "object" /\ heap[v.n].cls = "Promise"

\* an await that does not wait for the settlement
Settled_always(v) == TRUE

\* await x can resume: x is not a promise, or x has settled
Settled(v) == IF IsPromise(v) THEN heap[v.n].state # "pending" ELSE TRUE

(***************************************************************************)
(* Environment: the deferred computations settle                           *)
(***************************************************************************)
PromiseResolve(p, v) ==
  /\ Constructed(p)
  /\ heap[p].state = "pending"
  /\ heap' = [heap EXCEPT ![p] = PromiseObj("fulfilled", v)]
  /\ UNCHANGED <<calls, sig>>

PromiseReject(p) ==
  /\ Constructed(p)
  /\ heap[p].state = "pending"
  /\ heap' = [heap EXCEPT ![p] = PromiseObj("rejected", sig)]
  /\ UNCHANGED <<calls, sig>>

(***************************************************************************)
(* to(asyncFn, defaultValue)                                               *)
(***************************************************************************)
\* a `to` that invokes asyncFn a second time when the first invocation raises
to_retries(c, asyncFn, defaultValue) ==
  /\ CanStart(c)
  /\ IF asyncFn.mode = "throw"
     THEN LET r == toCatch(asyncFn.arg, defaultValue, heap, AllocAddr(c)) IN
          /\ calls' = [calls EXCEPT ![c] =
                 [kind |-> "to", pc |-> "done", mode |-> asyncFn.mode,
                  arg |-> asyncFn.arg, dflt |-> defaultValue, res |-> r.res,
                  invoked |-> 2, suspended |-> 0, resumed |-> 0]]
          /\ heap' = r.heap
     ELSE /\ calls' = [calls EXCEPT ![c] =
                 [kind |-> "to", pc |-> "awaiting", mode |-> asyncFn.mode,
                  arg |-> asyncFn.arg, dflt |-> defaultValue, res |-> NoOutcome,
                  invoked |-> 1, suspended |-> 1, resumed |-> 0]]
          /\ heap' = heap
  /\ UNCHANGED sig

\* the call up to its await, or up to its return when asyncFn() raises
to(c, asyncFn, defaultValue) ==
  /\ CanStart(c)
  /\ IF asyncFn.mode = "throw"
     THEN LET r == toCatch(asyncFn.arg, defaultValue, heap, AllocAddr(c)) IN
          /\ calls' = [calls EXCEPT ![c] =
                 [kind |-> "to", pc |-> "done", mode |-> asyncFn.mode,
                  arg |-> asyncFn.arg, dflt |-> defaultValue, res |-> r.res,
                  invoked |-> 1, suspended |-> 0, resumed |-> 0]]
          /\ heap' = r.heap
     ELSE /\ calls' = [calls EXCEPT ![c] =
                 [kind |-> "to", pc |-> "awaiting", mode |-> asyncFn.mode,
                  arg |-> asyncFn.arg, dflt |-> defaultValue, res |-> NoOutcome,
                  invoked |-> 1, suspended |-> 1, resumed |-> 0]]
          /\ heap' = heap
  /\ UNCHANGED sig

\* a continuation that reads the fallback of the first call instead of its own
to_resume_firstFallback(c) ==
  /\ calls[c].kind = "to"
  /\ calls[c].pc = "awaiting"
  /\ Settled(calls[c].arg)
  /\ LET x == calls[c].arg
         r == IF IsPromise(x) /\ heap[x.n].state = "rejected"
              THEN toCatch(heap[x.n].value, calls[1].dflt, heap, AllocAddr(c))
              ELSE [res |-> toTry(IF IsPromise(x) THEN heap[x.n].value ELSE x),
                    heap |-> heap]
     IN /\ calls' = [calls EXCEPT ![c].pc = "done", ![c].res = r.res,
                                  ![c].resumed = @ + 1]
        /\ heap' = r.heap
  /\ UNCHANGED sig

\* the continuation of `await asyncFn()`
to_resume(c) ==
  /\ calls[c].kind = "to"
  /\ calls[c].pc = "awaiting"
  /\ Settled(calls[c].arg)
  /\ LET x == calls[c].arg
         r == IF IsPromise(x) /\ heap[x.n].state = "rejected"
              THEN toCatch(heap[x.n].value, calls[c].dflt, heap, AllocAddr(c))
              ELSE [res |-> toTry(IF IsPromise(x) THEN heap[x.n].value ELSE x),
                    heap |-> heap]
     IN /\ calls' = [calls EXCEPT ![c].pc = "done", ![c].res = r.res,
                                  ![c].resumed = @ + 1]
        /\ heap' = r.heap
  /\ UNCHANGED sig

(***************************************************************************)
(* toSync(fn, defaultValue)                                                *)
(***************************************************************************)
\* a toSync that awaits what fn returns: const result = await fn()
toSync_awaits(c, fn, defaultValue) ==
  /\ CanStart(c)
  /\ IF fn.mode = "throw"
     THEN LET r == toSyncCatch(fn.arg, defaultValue, heap, AllocAddr(c)) IN
          /\ calls' = [calls EXCEPT ![c] =
                 [kind |-> "toSync", pc |-> "done", mode |-> fn.mode,
                  arg |-> fn.arg, dflt |-> defaultValue, res |-> r.res,
                  invoked |-> 1, suspended |-> 0, resumed |-> 0]]
          /\ heap' = r.heap
     ELSE /\ calls' = [calls EXCEPT ![c] =
                 [kind |-> "toSync", pc |-> "awaiting", mode |-> fn.mode,
                  arg |-> fn.arg, dflt |-> defaultValue, res |-> NoOutcome,
                  invoked |-> 1, suspended |-> 1, resumed |-> 0]]
          /\ heap' = heap
  /\ UNCHANGED sig

toSync(c, fn, defaultValue) ==
  /\ CanStart(c)
  /\ LET r == IF fn.mode = "throw"
              THEN toSyncCatch(fn.arg, defaultValue, heap, AllocAddr(c))
              ELSE [res |-> toSyncTry(fn.arg), heap |-> heap]
     IN /\ calls' = [calls EXCEPT ![c] =
               [kind |-> "toSync", pc |-> "done", mode |-> fn.mode,
                arg |-> fn.arg, dflt |-> defaultValue, res |-> r.res,
                invoked |-> 1, suspended |-> 0, resumed |-> 0]]
        /\ heap' = r.heap
  /\ UNCHANGED sig

(***************************************************************************)
(* toPromise(promise, defaultValue)                                        *)
(***************************************************************************)
toPromise(c, promise, defaultValue) ==
  /\ CanStart(c)
  /\ calls' = [calls EXCEPT ![c] =
         [kind |-> "toPromise", pc |-> "awaiting", mode |-> "promise",
          arg |-> promise, dflt |-> defaultValue, res |-> NoOutcome,
          invoked |-> 0, suspended |-> 1, resumed |-> 0]]
  /\ UNCHANGED <<heap, sig>>

\* a continuation that gives up waiting: it runs although the promise is pending
toPromise_resume_noWait(c) ==
  /\ calls[c].kind = "toPromise"
  /\ calls[c].pc = "awaiting"
  /\ LET x == calls[c].arg
         r == IF IsPromise(x) /\ heap[x.n].state = "rejected"
              THEN toPromiseCatch(heap[x.n].value, calls[c].dflt, heap, AllocAddr(c))
              ELSE [res |-> toPromiseTry(IF IsPromise(x) THEN heap[x.n].value ELSE x),
                    heap |-> heap]
     IN /\ calls' = [calls EXCEPT ![c].pc = "done", ![c].res = r.res,
                                  ![c].resumed = @ + 1]
        /\ heap' = r.heap
  /\ UNCHANGED sig

\* the continuation of `await promise`
toPromise_resume(c) ==
  /\ calls[c].kind = "toPromise"
  /\ calls[c].pc = "awaiting"
  /\ Settled(calls[c].arg)
  /\ LET x == calls[c].arg
         r == IF IsPromise(x) /\ heap[x.n].state = "rejected"
              THEN toPromiseCatch(heap[x.n].value, calls[c].dflt, heap, AllocAddr(c))
              ELSE [res |-> toPromiseTry(IF IsPromise(x) THEN heap[x.n].value ELSE x),
                    heap |-> heap]
     IN /\ calls' = [calls EXCEPT ![c].pc = "done", ![c].res = r.res,
                                  ![c].resumed = @ + 1]
        /\ heap' = r.heap
  /\ UNCHANGED sig

Next ==
  \/ \E p \in PromiseAddr, v \in Values : PromiseResolve(p, v)
  \/ \E p \in PromiseAddr : PromiseReject(p)
  \/ \E c \in CallIds, f \in AsyncFns, d \in Fallbacks : to(c, f, d)
  \/ \E c \in CallIds : to_resume(c)
  \/ \E c \in CallIds, f \in SyncFns, d \in Fallbacks : toSync(c, f, d)
  \/ \E c \in CallIds, p \in Promises, d \in Fallbacks : toPromise(c, p, d)
  \/ \E c \in CallIds : toPromise_resume(c)

Spec == Init /\ [][Next]_vars

\* the job queue runs the continuation of an await whose promise has settled
Resume == \E c \in CallIds : to_resume(c) \/ toPromise_resume(c)

Fairness == WF_vars(Resume)

\* the behaviours in which only the two asynchronous wrappers are called
NextAsync ==
  \/ \E p \in PromiseAddr, v \in Values : PromiseResolve(p, v)
  \/ \E p \in PromiseAddr : PromiseReject(p)
  \/ \E c \in CallIds, f \in AsyncFns, d \in Fallbacks : to(c, f, d)
  \/ \E c \in CallIds : to_resume(c)
  \/ \E c \in CallIds, p \in Promises, d \in Fallbacks : toPromise(c, p, d)
  \/ \E c \in CallIds : toPromise_resume(c)

AsyncSpec == Init /\ [][NextAsync]_vars /\ Fairness

TypeOK ==
  /\ sig \in Signals
  /\ \A c \in CallIds : calls[c].pc \in {"idle", "awaiting", "done"}

(***************************************************************************)
(* What the wrapped operation of a call did, read from the environment     *)
(***************************************************************************)
Done(c) == calls[c].pc = "done"

\* the operation returned normally, or its deferred computation fulfilled
OpReturned(c) ==
  IF calls[c].mode = "promise"
  THEN heap[calls[c].arg.n].state = "fulfilled"
  ELSE calls[c].mode = "return"

\* the operation raised, or its deferred computation rejected
OpRaised(c) ==
  IF calls[c].mode = "promise"
  THEN heap[calls[c].arg.n].state = "rejected"
  ELSE calls[c].mode = "throw"

\* the value produced, or the signal raised
OpValue(c) ==
  IF calls[c].mode = "promise" THEN heap[calls[c].arg.n].value ELSE calls[c].arg
OpSignal(c) == OpValue(c)

\* v is an Error instance (the canonical failure representation)
CanonicalFailure(v) ==
  IF v.t = "object" THEN heap[v.n].cls \in {"Error", "TypeError"} ELSE FALSE

\* v is a string, a number, null, undefined or a plain data object
PlainSignal(v) ==
  IF v.t = "object" THEN heap[v.n].cls = "Object" ELSE TRUE

\* v cannot be converted to a string
Unstringifiable(v) ==
  IF v.t = "object" THEN heap[v.n].cls = "NullProto" ELSE FALSE

\* the standard string rendering of the plain signals of this model
StandardRendering(v) ==
  CASE v = Str("string error") -> "string error"
    [] v = Num(404)            -> "404"
    [] v = Null                -> "null"
    [] v = Undefined           -> "undefined"
    [] v = Ref(AddrData)       -> "[object Object]"
    [] OTHER                   -> "(none)"

\* f is the normalized form of the signal s raised in call c
NormalizedFormOf(f, s, c) ==
  /\ CanonicalFailure(f)
  /\ CanonicalFailure(s) => f = s
  /\ ~CanonicalFailure(s) =>
       /\ f = Ref(AllocAddr(c))
       /\ heap[f.n].cls = "Error"
       /\ heap[f.n].message = StandardRendering(s)

(***************************************************************************)
(* Claims                                                                  *)
(***************************************************************************)
\* C1: in each wrapper, an operation that returns normally or settles
\* successfully with v yields the tuple (null, v), v being the very value
\* produced, whether or not a fallback was supplied.
C1_SuccessTuple ==
  \A c \in CallIds :
    (Done(c) /\ OpReturned(c)) => calls[c].res = Tuple(Null, OpValue(c))

\* a `to` call and a toPromise call, both given a fallback, have delivered
\* the data object their deferred computation fulfilled with
C1_Witness ==
  \E c1, c2 \in CallIds :
    /\ calls[c1].kind = "to" /\ calls[c2].kind = "toPromise"
    /\ \A c \in {c1, c2} :
         /\ Done(c) /\ calls[c].mode = "promise" /\ OpReturned(c)
         /\ calls[c].dflt # Undefined
         /\ calls[c].res.data = Ref(AddrData)

\* C2: in each wrapper, an operation that raises or rejects with any signal
\* s, no fallback supplied, yields (f, undefined) with f the normalized form
\* of s: the failure slot non-null, the value slot absent.
C2_FailureNoFallback ==
  \A c \in CallIds :
    (Done(c) /\ OpRaised(c) /\ calls[c].dflt = Undefined) =>
      /\ calls[c].res.outcome = "tuple"
      /\ calls[c].res.err # Null
      /\ calls[c].res.data = Undefined
      /\ NormalizedFormOf(calls[c].res.err, OpSignal(c), c)

\* C3: in each wrapper, an operation that raises or rejects with any signal
\* s, a fallback d supplied, yields (f, d): f the normalized form of s and
\* the value slot the caller's own d.
C3_FailureWithFallback ==
  \A c \in CallIds :
    (Done(c) /\ OpRaised(c) /\ calls[c].dflt # Undefined) =>
      /\ calls[c].res.outcome = "tuple"
      /\ calls[c].res.data = calls[c].dflt
      /\ NormalizedFormOf(calls[c].res.err, OpSignal(c), c)

\* C4: no raise or rejection crosses out of a wrapper: every completed call
\* has returned (toSync) or fulfilled with (to, toPromise) a tuple.
C4_NeverRaises ==
  \A c \in CallIds : Done(c) => calls[c].res.outcome = "tuple"

\* C5: when the signal is already an Error instance, the failure slot holds
\* that same object and the call constructs no new failure object.
C5_CanonicalPassedThrough ==
  \A c \in CallIds :
    (Done(c) /\ OpRaised(c) /\ CanonicalFailure(OpSignal(c))) =>
      /\ calls[c].res.outcome = "tuple"
      /\ calls[c].res.err = OpSignal(c)
      /\ heap[AllocAddr(c)] = FreeCell

\* a toPromise call and a call of `to` or toSync have each failed with an
\* Error instance
C5_Witness ==
  \E c1, c2 \in CallIds :
    /\ calls[c1].kind = "toPromise" /\ calls[c2].kind \in {"to", "toSync"}
    /\ \A c \in {c1, c2} :
         Done(c) /\ OpRaised(c) /\ OpSignal(c) = Ref(AddrError)

\* C6: when the signal is a string, a number, null, undefined or a plain
\* data object, the failure slot holds a newly constructed Error whose
\* message is the standard string rendering of the signal; the slot is
\* non-null also for a null or undefined signal.
C6_PlainSignalWrapped ==
  \A c \in CallIds :
    (Done(c) /\ OpRaised(c) /\ PlainSignal(OpSignal(c))) =>
      /\ calls[c].res.outcome = "tuple"
      /\ calls[c].res.err # Null
      /\ calls[c].res.err # OpSignal(c)
      /\ calls[c].res.err = Ref(AllocAddr(c))
      /\ heap[AllocAddr(c)].cls = "Error"
      /\ heap[AllocAddr(c)].message = StandardRendering(OpSignal(c))

\* two calls have failed with null or undefined, or two with a number, each
\* holding its own new Error
C6_Witness ==
  \E c1, c2 \in CallIds :
    /\ c1 # c2
    /\ sig \in {Null, Undefined, Num(404)}
    /\ \A c \in {c1, c2} :
         /\ Done(c) /\ OpRaised(c) /\ OpSignal(c) = sig
         /\ heap[AllocAddr(c)].cls = "Error"

\* C7: when the signal cannot be converted to a string, the wrapper still
\* returns a failure tuple whose failure is a canonical failure (carrying a
\* placeholder message), with the fallback in the value slot.
C7_UnstringifiableHandled ==
  \A c \in CallIds :
    (Done(c) /\ OpRaised(c) /\ Unstringifiable(OpSignal(c))) =>
      /\ calls[c].res.outcome = "tuple"
      /\ CanonicalFailure(calls[c].res.err)
      /\ calls[c].res.data = calls[c].dflt

\* the failure slots of two results agree: the same object when the signal
\* was canonical, Errors of equal content otherwise
SameFailure(c1, c2) ==
  IF CanonicalFailure(OpSignal(c1))
  THEN calls[c1].res.err = calls[c2].res.err
  ELSE /\ calls[c1].res.err.t = "object" /\ calls[c2].res.err.t = "object"
       /\ heap[calls[c1].res.err.n] = heap[calls[c2].res.err.n]

SameResult(c1, c2) ==
  /\ calls[c1].res.outcome = calls[c2].res.outcome
  /\ calls[c1].res.data = calls[c2].res.data
  /\ IF calls[c1].res.err = Null \/ calls[c2].res.err = Null
     THEN calls[c1].res.err = calls[c2].res.err
     ELSE SameFailure(c1, c2)

\* C8: for `to`, an operation that raises s while being invoked and one whose
\* deferred computation rejects with s produce the same tuple
\* (normalize(s), fallback), and in both cases the promise `to` returned
\* fulfils.
C8_RaiseAndRejectUnified ==
  \A c1, c2 \in CallIds :
    ( /\ calls[c1].kind = "to" /\ calls[c2].kind = "to"
      /\ Done(c1) /\ Done(c2)
      /\ calls[c1].mode = "throw" /\ calls[c2].mode = "promise"
      /\ OpRaised(c2) /\ OpSignal(c1) = OpSignal(c2)
      /\ calls[c1].dflt = calls[c2].dflt ) =>
      /\ calls[c1].res.outcome = "tuple"
      /\ calls[c2].res.outcome = "tuple"
      /\ SameResult(c1, c2)
      /\ calls[c1].res.data = calls[c1].dflt
      /\ NormalizedFormOf(calls[c1].res.err, OpSignal(c1), c1)

\* C9: toPromise(p, d) and to(() => p, d) end the same way for every outcome
\* of p and every d: identical tuples, the failure slot the same object for
\* a canonical signal and an Error of equal content otherwise.
C9_ToPromiseEquivalentToTo ==
  \A c1, c2 \in CallIds :
    ( /\ calls[c1].kind = "to" /\ calls[c1].mode = "promise"
      /\ calls[c2].kind = "toPromise"
      /\ calls[c1].arg = calls[c2].arg
      /\ calls[c1].dflt = calls[c2].dflt
      /\ Done(c1) /\ Done(c2) ) =>
      SameResult(c1, c2)

\* to(() => p, d) and toPromise(p, d) have both completed on a p rejected
\* with a non-canonical signal, d supplied
C9_Witness ==
  \E c1, c2 \in CallIds :
    /\ calls[c1].kind = "to" /\ calls[c1].mode = "promise"
    /\ calls[c2].kind = "toPromise"
    /\ calls[c1].arg = calls[c2].arg
    /\ calls[c1].dflt = calls[c2].dflt /\ calls[c1].dflt # Undefined
    /\ Done(c1) /\ Done(c2)
    /\ OpRaised(c1) /\ PlainSignal(OpSignal(c1))
    /\ calls[c1].res.outcome = "tuple" /\ calls[c2].res.outcome = "tuple"

\* (a) the failure slot is null and the value slot holds what the operation
\* produced
TupleIsSuccess(c) ==
  /\ calls[c].res.err = Null
  /\ OpReturned(c)
  /\ calls[c].res.data = OpValue(c)

\* (b) the failure slot holds a normalized failure and the value slot holds
\* the caller's fallback
TupleIsFailure(c) ==
  /\ calls[c].res.err # Null
  /\ OpRaised(c)
  /\ NormalizedFormOf(calls[c].res.err, OpSignal(c), c)
  /\ calls[c].res.data = calls[c].dflt

\* C10: every returned tuple is exactly one of (a) a success tuple and (b) a
\* failure tuple; none has a non-null failure beside a produced value.
C10_ExactlyOneShape ==
  \A c \in CallIds :
    calls[c].res.outcome = "tuple" =>
      /\ TupleIsSuccess(c) # TupleIsFailure(c)
      /\ calls[c].res.err # Null => ~OpReturned(c)

\* one call has returned a failure tuple with its fallback, another a
\* success tuple although a fallback was supplied
C10_Witness ==
  \E c1, c2 \in CallIds :
    /\ calls[c1].res.outcome = "tuple" /\ calls[c2].res.outcome = "tuple"
    /\ calls[c1].res.err # Null /\ calls[c1].dflt # Undefined
    /\ calls[c1].res.data = calls[c1].dflt
    /\ calls[c2].res.err = Null /\ calls[c2].dflt # Undefined
    /\ calls[c2].res.data # calls[c2].dflt

\* C11: failure normalization is idempotent: normalizing a failure a call
\* delivered gives that same object and constructs nothing, and a second
\* call whose operation raises the failure a first call delivered holds the
\* identical object in its failure slot.
C11_NormalizationIdempotent ==
  /\ \A c \in CallIds :
       (Done(c) /\ calls[c].res.outcome = "tuple" /\ calls[c].res.err # Null) =>
         LET again == errorInstance(calls[c].res.err, heap, AllocAddr(c)) IN
           /\ ~again.threw
           /\ again.val = calls[c].res.err
           /\ again.heap = heap
  /\ \A c1, c2 \in CallIds :
       ( /\ c1 # c2 /\ Done(c1) /\ Done(c2)
         /\ calls[c1].res.outcome = "tuple" /\ calls[c1].res.err # Null
         /\ OpRaised(c2) /\ OpSignal(c2) = calls[c1].res.err ) =>
         /\ calls[c2].res.outcome = "tuple"
         /\ calls[c2].res.err = calls[c1].res.err
         /\ heap[AllocAddr(c2)] = FreeCell

\* a first call built a new Error from a plain signal, and a call of `to`
\* whose operation raised that Error has completed
C11_Witness ==
  \E c1, c2 \in CallIds :
    /\ c1 # c2 /\ Done(c1) /\ Done(c2)
    /\ PlainSignal(OpSignal(c1))
    /\ calls[c1].res.err = Ref(AllocAddr(c1))
    /\ calls[c2].kind = "to" /\ calls[c2].mode = "throw"
    /\ calls[c2].arg = calls[c1].res.err

\* a call of one of the two asynchronous wrappers
AsyncCall(c) == calls[c].kind \in {"to", "toPromise"}

\* a call that awaits a deferred computation, and whether it is still pending
HasDeferred(c) == AsyncCall(c) /\ calls[c].mode = "promise"
Pending(c) == heap[calls[c].arg.n].state = "pending"

\* C12 as stated: every call of to and of toPromise has exactly one
\* suspension and is resumed exactly once, on settlement: no tuple before
\* the computation settles, exactly one after.
C12_OneSuspensionEveryCall ==
  \A c \in CallIds :
    AsyncCall(c) =>
      /\ calls[c].suspended = 1
      /\ calls[c].resumed <= 1
      /\ Done(c) <=> calls[c].resumed = 1
      /\ Done(c) => calls[c].res.outcome = "tuple"
      /\ ~Done(c) => calls[c].res.outcome = "none"

\* the safety part of the amended C12
C12_SuspensionShape ==
  \A c \in CallIds :
    AsyncCall(c) =>
      IF calls[c].mode = "promise"
      THEN /\ calls[c].suspended = 1
           /\ calls[c].resumed <= 1
           /\ Done(c) <=> calls[c].resumed = 1
           /\ Done(c) <=> calls[c].res.outcome # "none"
           /\ Pending(c) => ~Done(c)
      ELSE /\ calls[c].suspended = 0
           /\ calls[c].resumed = 0
           /\ Done(c)
           /\ calls[c].res.outcome # "none"

\* C12 (amended): a call of toPromise, or of `to` whose operation returns a
\* deferred computation, suspends exactly once and is resumed exactly once,
\* on settlement: it completes not before the computation settles and
\* exactly once after; a call of `to` whose operation raises while being
\* invoked does not suspend and completes within the call.
\* (Settlement and completion are stable, so "every call whose computation
\* has settled has completed" holding again and again means each such call
\* does complete.)
C12_OneSuspensionPerDeferred ==
  /\ []C12_SuspensionShape
  /\ []<>(\A c \in CallIds : (HasDeferred(c) /\ ~Pending(c)) => Done(c))

\* a call of `to` and a call of toPromise have both been resumed after one
\* suspension, one of them with a failure
C12_Witness ==
  \E c1, c2 \in CallIds :
    /\ calls[c1].kind = "to" /\ calls[c2].kind = "toPromise"
    /\ \A c \in {c1, c2} :
         /\ HasDeferred(c) /\ Done(c)
         /\ calls[c].suspended = 1 /\ calls[c].resumed = 1
    /\ OpRaised(c1)

\* a call whose computation is pending is suspended and has produced nothing
C13_PendingMeansSuspended ==
  \A c \in CallIds :
    (HasDeferred(c) /\ Pending(c)) =>
      calls[c].pc = "awaiting" /\ calls[c].res = NoOutcome

\* a call that awaits a computation completes only in a step taken from its
\* suspension, with the computation already settled
C13_CompletesOnlyOnSettlement ==
  \A c \in CallIds :
    ( /\ calls[c].pc # "done" /\ calls'[c].pc = "done"
      /\ calls'[c].kind \in {"to", "toPromise"} /\ calls'[c].mode = "promise" ) =>
      /\ calls[c].pc = "awaiting"
      /\ calls[c].arg = calls'[c].arg
      /\ heap[calls[c].arg.n].state # "pending"

\* C13: while the deferred computation of a call of to or toPromise has not
\* settled the call stays suspended and produces neither a success nor a
\* failure tuple (so it never completes if the computation never settles),
\* and the call completes only as a consequence of that settlement.
C13_NeverSettlesNeverCompletes ==
  /\ []C13_PendingMeansSuspended
  /\ [][C13_CompletesOnlyOnSettlement]_vars

\* a call is still suspended on a pending computation although another call
\* made after it has already completed
C13_Witness ==
  \E c1, c2 \in CallIds :
    /\ c1 < c2
    /\ HasDeferred(c1) /\ Pending(c1) /\ calls[c1].pc = "awaiting"
    /\ Done(c2)

\* a toSync call is complete whenever it exists: never suspended, never
\* resumed, its outcome present
C14_SyncCallComplete ==
  \A c \in CallIds :
    calls[c].kind = "toSync" =>
      /\ Done(c)
      /\ calls[c].suspended = 0 /\ calls[c].resumed = 0
      /\ calls[c].res.outcome # "none"

\* the step that makes a toSync call invokes the operation and delivers the
\* outcome at once, no other call and no promise changing in that step, and
\* no later step touches the call
C14_SyncCallOneStep ==
  \A c \in CallIds :
    /\ (calls[c].kind = "idle" /\ calls'[c].kind = "toSync") =>
         /\ calls'[c].pc = "done"
         /\ calls'[c].invoked = 1
         /\ calls'[c].res.outcome # "none"
         /\ \A c2 \in CallIds \ {c} : calls'[c2] = calls[c2]
         /\ \A p \in PromiseAddr : heap'[p] = heap[p]
    /\ calls[c].kind = "toSync" => calls'[c] = calls[c]

\* C14: toSync never suspends: its outcome is produced within the call, in
\* the step in which the operation returns or raises, with no await and no
\* other task running between the invocation and the delivery.
C14_ToSyncNeverSuspends ==
  /\ []C14_SyncCallComplete
  /\ [][C14_SyncCallOneStep]_vars

\* a toSync call has delivered while an earlier call is still suspended:
\* once a value its operation returned, or once a failure
C14_Witness ==
  \E c1, c2 \in CallIds :
    /\ c1 < c2
    /\ calls[c1].pc = "awaiting"
    /\ calls[c2].kind = "toSync" /\ Done(c2)
    /\ calls[c2].res.outcome = "tuple"
    /\ calls[c2].suspended = 0

\* the result of a completed call, and the cell it may construct an Error in,
\* are what its own operation's outcome and its own fallback determine
C15_OwnOutcome(c) ==
  IF OpReturned(c)
  THEN /\ calls[c].res = Tuple(Null, OpValue(c))
       /\ heap[AllocAddr(c)] = FreeCell
  ELSE IF CanonicalFailure(OpSignal(c))
  THEN /\ calls[c].res = Tuple(OpSignal(c), calls[c].dflt)
       /\ heap[AllocAddr(c)] = FreeCell
  ELSE IF Unstringifiable(OpSignal(c))
  THEN /\ calls[c].res = Raised(Ref(AllocAddr(c)))
       /\ heap[AllocAddr(c)].cls = "TypeError"
  ELSE /\ calls[c].res = Tuple(Ref(AllocAddr(c)), calls[c].dflt)
       /\ heap[AllocAddr(c)] = ErrorObj("Error", StandardRendering(OpSignal(c)))

C15_EachCallOwnResult ==
  \A c \in CallIds : (AsyncCall(c) /\ Done(c)) => C15_OwnOutcome(c)

\* a step changes at most one call; a call that takes no step keeps its
\* record and its cell; a completed call is never changed again; the objects
\* of the environment are never written, and a promise not by a call
C15_StepsTouchOneCall ==
  /\ \A c1, c2 \in CallIds :
       (calls'[c1] # calls[c1] /\ calls'[c2] # calls[c2]) => c1 = c2
  /\ \A c \in CallIds :
       /\ calls'[c] = calls[c] => heap'[AllocAddr(c)] = heap[AllocAddr(c)]
       /\ Done(c) => calls'[c] = calls[c]
  /\ \A a \in 1..NumStatic : heap'[a] = heap[a]
  /\ calls' # calls => \A p \in PromiseAddr : heap'[p] = heap[p]

\* C15: calls are independent: with several to/toPromise calls in flight and
\* their computations settling in any order, each call returns the tuple its
\* own computation's outcome and its own fallback determine; no call's step
\* changes another call, and nothing a call writes is read by a later one.
C15_CallsIndependent ==
  /\ []C15_EachCallOwnResult
  /\ [][C15_StepsTouchOneCall]_vars

\* two calls given different fallbacks await two different computations: the
\* one made later has failed and holds its own fallback and its own new
\* Error, while the one made earlier is still suspended on its pending
\* computation and has constructed nothing
C15_Witness ==
  \E c1, c2 \in CallIds :
    /\ c1 < c2
    /\ {calls[c1].kind, calls[c2].kind} = {"to", "toPromise"}
    /\ HasDeferred(c1) /\ HasDeferred(c2)
    /\ calls[c1].arg # calls[c2].arg
    /\ calls[c1].dflt # calls[c2].dflt
    /\ calls[c1].pc = "awaiting" /\ Pending(c1)
    /\ heap[AllocAddr(c1)] = FreeCell
    /\ Done(c2) /\ OpRaised(c2)
    /\ calls[c2].res = Tuple(Ref(AllocAddr(c2)), calls[c2].dflt)

\* C16: each call of to and of toSync has invoked the supplied operation
\* exactly once, at every moment from the call on: after a failure (no
\* retry) and with a fallback supplied (the operation is not skipped).
C16_InvokedExactlyOnce ==
  \A c \in CallIds :
    calls[c].kind \in {"to", "toSync"} => calls[c].invoked = 1

\* a `to` call and a toSync call, one of them given a fallback, have both
\* failed after one invocation of their operation
C16_Witness ==
  \E c1, c2 \in CallIds :
    /\ calls[c1].kind = "to" /\ calls[c2].kind = "toSync"
    /\ \A c \in {c1, c2} :
         Done(c) /\ OpRaised(c) /\ calls[c].mode = "throw" /\ calls[c].invoked = 1
    /\ calls[c1].dflt # Undefined

\* the operation of a toSync call returned a promise
ReturnedPromise(c) ==
  /\ calls[c].kind = "toSync" /\ calls[c].mode = "return"
  /\ calls[c].arg.t = "object"
  /\ heap[calls[c].arg.n].cls = "Promise"

\* C17: when the operation of a toSync call returns a deferred computation,
\* pending, fulfilled or rejected, now or later, the call holds the success
\* tuple (null, thatComputation): the rejection is not moved into the
\* failure slot, no failure is constructed and the fallback is not used.
C17_ToSyncReturnsPromiseAsValue ==
  \A c \in CallIds :
    ReturnedPromise(c) =>
      /\ calls[c].res = Tuple(Null, calls[c].arg)
      /\ heap[AllocAddr(c)] = FreeCell

\* a toSync call given a fallback returned a promise that is rejected
C17_Witness ==
  \E c \in CallIds :
    /\ ReturnedPromise(c) /\ Done(c)
    /\ calls[c].dflt # Undefined
    /\ heap[calls[c].arg.n].state = "rejected"
====
